---- MODULE Spec2Model ----
(***************************************************************************)
(* Shape and representation model of nets/nn.py: the YOLOv8 graph (SiLU,   *)
(* Conv, Residual, CSP, SPP, DarkNet, DarkFPN, Head, YOLO), the QAT        *)
(* wrapper and the six factory functions.                                  *)
(*                                                                         *)
(* A tensor is modelled by what the graph's bookkeeping depends on: its    *)
(* channel count, height, width and representation (real-valued, or        *)
(* quantized with a scale and zero point).  A raised exception is the      *)
(* tensor Err, which every operation propagates.                           *)
(* Scales are counted in units of 1/256, so 1.0 is 256.                    *)
(***************************************************************************)
EXTENDS Integers, Sequences, FiniteSets, TLC

\* ------------------------------------------------------------------ bounds
MaxDepthQ == 2      \* largest CSP depth n explored by the CSP-level specification
MaxNcExtra == 1     \* number of class counts explored above the default 80

\* ----------------------------------------------------------- small helpers
Max2(a, b) == IF a >= b THEN a ELSE b

Max3(a, b, c) == Max2(a, Max2(b, c))

\* Python evaluates an argument once, before the call: v is evaluated once
\* and handed to F as a value.
Eval(v, F(_)) == CHOOSE y \in {F(u) : u \in {v}} : TRUE

\* ------------------------------------------------------- tensor primitives
RealQ == [kind |-> "real", scale |-> 0, zp |-> 0]

Quant(s, z) == [kind |-> "quant", scale |-> s, zp |-> z]

Err == [ok |-> FALSE, c |-> 0, h |-> 0, w |-> 0, q |-> RealQ]

Tensor(c, h, w, q) == [ok |-> TRUE, c |-> c, h |-> h, w |-> w, q |-> q]

is_quantized(t) == t.q.kind = "quant"

ScaleOne == 256

SigmoidQScale == 1

\* torch.nn.Sigmoid: shape preserved; a quantized input gives a quantized
\* output with the operator's fixed output parameters (scale 1/256, zp 0).
Sigmoid(x) ==
    IF ~x.ok THEN Err
    ELSE IF is_quantized(x) THEN [x EXCEPT !.q = Quant(SigmoidQScale, 0)]
    ELSE x

\* torch.ops.quantized.mul / torch.ops.quantized.add with explicit output
\* scale and zero point.
QuantizedOp(a, b, scale, zero_point) ==
    IF ~a.ok \/ ~b.ok THEN Err
    ELSE IF ~(is_quantized(a) /\ is_quantized(b)) THEN Err
    ELSE IF <<a.c, a.h, a.w>> # <<b.c, b.h, b.w>> THEN Err
    ELSE [a EXCEPT !.q = Quant(scale, zero_point)]

\* Plain elementwise * and + of two tensors of the same shape
\* (the operands here never have broadcastable unequal shapes).
Elementwise(a, b) ==
    IF ~a.ok \/ ~b.ok THEN Err
    ELSE IF is_quantized(a) \/ is_quantized(b) THEN Err
    ELSE IF <<a.c, a.h, a.w>> # <<b.c, b.h, b.w>> THEN Err
    ELSE a

dequantize(t) == IF t.ok THEN [t EXCEPT !.q = RealQ] ELSE Err

quantize_per_tensor(t, scale, zero_point) ==
    IF ~t.ok \/ is_quantized(t) THEN Err
    ELSE [t EXCEPT !.q = Quant(scale, zero_point)]

RECURSIVE SumC(_)
SumC(ts) == IF ts = <<>> THEN 0 ELSE Head(ts).c + SumC(Tail(ts))

\* Cat without the check of the other dimensions.
CatUnchecked(ts) ==
    IF \E i \in 1..Len(ts) : ~ts[i].ok THEN Err
    ELSE [ts[1] EXCEPT !.c = SumC(ts)]

\* torch.cat(ts, dim=1): channels add up; every other dimension and the
\* representation must agree, otherwise it raises.
Cat(ts) ==
    IF \E i \in 1..Len(ts) : ~ts[i].ok THEN Err
    ELSE IF \E i \in 1..Len(ts) :
               \/ ts[i].h # ts[1].h
               \/ ts[i].w # ts[1].w
               \/ is_quantized(ts[i]) # is_quantized(ts[1]) THEN Err
    ELSE [ts[1] EXCEPT !.c = SumC(ts)]

\* Tensor.chunk(2, 1): pieces of ceil(c/2) channels, the last one smaller;
\* a single piece when c = 1.
Chunk2(t) ==
    IF ~t.ok THEN <<Err, Err>>
    ELSE LET size == (t.c + 1) \div 2
         IN  IF t.c - size = 0 THEN << [t EXCEPT !.c = size] >>
             ELSE << [t EXCEPT !.c = size], [t EXCEPT !.c = t.c - size] >>

\* ------------------------------------------------------------------- SiLU
SiLUForward(x) ==
    IF ~x.ok THEN Err
    ELSE IF is_quantized(x)
         THEN QuantizedOp(x, Sigmoid(x), x.q.scale, x.q.zp)
         ELSE Elementwise(x, Sigmoid(x))

\* ------------------------------------------------------------------- Conv
\* torch.nn.Conv2d(in_ch, out_ch, k, s, p)
Conv2d(in_ch, out_ch, k, s, p) ==
    [in_ch |-> in_ch, out_ch |-> out_ch, k |-> k, s |-> s, p |-> p]

OutSize(n, m) == ((n + 2 * m.p - m.k) \div m.s) + 1

\* r is the representation the convolution (and normalisation) layers
\* produce: real for float layers, quantized with the layers' own
\* parameters once the quantization collaborator has converted them.
Conv2dForward(m, x, r) ==
    IF ~x.ok THEN Err
    ELSE IF x.c # m.in_ch THEN Err
    ELSE Tensor(m.out_ch, OutSize(x.h, m), OutSize(x.w, m), r)

\* Conv without padding.
ConvNoPad(in_ch, out_ch, k, s) == Conv2d(in_ch, out_ch, k, s, 0)

Conv(in_ch, out_ch, k, s) == Conv2d(in_ch, out_ch, k, s, (k - 1) \div 2)

ConvForward(m, x, r) == Eval(Conv2dForward(m, x, r), SiLUForward)

\* --------------------------------------------------------------- Residual
Residual(ch, add) ==
    [add_m |-> add, conv1 |-> Conv(ch, ch, 3, 1), conv2 |-> Conv(ch, ch, 3, 1)]

\* e = [a, b]: the representations produced by conv1 and conv2.
ResidualY(m, x, e) ==
    Eval(ConvForward(m.conv1, x, e.a), LAMBDA y : ConvForward(m.conv2, y, e.b))

\* ResidualForward adding with the parameters of y instead of x.
ResidualForwardYParams(m, x, e) ==
    Eval(ResidualY(m, x, e), LAMBDA y :
        IF ~x.ok \/ ~y.ok THEN Err
        ELSE IF m.add_m
             THEN IF is_quantized(x) /\ is_quantized(y)
                  THEN QuantizedOp(x, y, y.q.scale, y.q.zp)
                  ELSE Elementwise(x, y)
             ELSE y)

ResidualForward(m, x, e) ==
    Eval(ResidualY(m, x, e), LAMBDA y :
        IF ~x.ok \/ ~y.ok THEN Err
        ELSE IF m.add_m
             THEN IF is_quantized(x) /\ is_quantized(y)
                  THEN QuantizedOp(x, y, x.q.scale, x.q.zp)
                  ELSE Elementwise(x, y)
             ELSE y)

\* -------------------------------------------------------------------- CSP
\* CSP whose conv2 is sized for one branch too few.
CSPShortConcat(in_ch, out_ch, n, add) ==
    [conv1 |-> Conv(in_ch, out_ch, 1, 1),
     conv2 |-> Conv(((1 + n) * out_ch) \div 2, out_ch, 1, 1),
     res_m |-> [i \in 1..n |-> Residual(out_ch \div 2, add)]]

CSP(in_ch, out_ch, n, add) ==
    [conv1 |-> Conv(in_ch, out_ch, 1, 1),
     conv2 |-> Conv(((2 + n) * out_ch) \div 2, out_ch, 1, 1),
     res_m |-> [i \in 1..n |-> Residual(out_ch \div 2, add)]]

\* env = [c1, res, c2]: the representations produced by conv1, by the two
\* ConvBlocks of each Residual, and by conv2.
RECURSIVE CSPChain(_, _, _, _)
CSPChain(m, env, y_list, i) ==
    IF i > Len(m.res_m) THEN y_list
    ELSE Eval(ResidualForward(m.res_m[i], y_list[Len(y_list)], env.res[i]),
              LAMBDA y : CSPChain(m, env, Append(y_list, y), i + 1))

CSPYList(m, x, env) ==
    Eval(ConvForward(m.conv1, x, env.c1), LAMBDA y : CSPChain(m, env, Chunk2(y), 1))

\* The list handed to torch.cat (lines 60-67).
CSPCatInput(y_list) ==
    IF \E i \in 1..Len(y_list) : is_quantized(y_list[i])
    THEN [i \in 1..Len(y_list) |->
             IF is_quantized(y_list[i]) THEN dequantize(y_list[i]) ELSE y_list[i]]
    ELSE y_list

\* CSPYOut re-quantizing with the parameters of the first quantized member.
CSPYOutMemberParams(x, y_list) ==
    IF \E i \in 1..Len(y_list) : ~y_list[i].ok THEN Err
    ELSE IF \E i \in 1..Len(y_list) : is_quantized(y_list[i])
    THEN LET t == y_list[CHOOSE i \in 1..Len(y_list) : is_quantized(y_list[i])]
         IN  Eval(Cat(CSPCatInput(y_list)),
                  LAMBDA y_cat : quantize_per_tensor(y_cat, t.q.scale, t.q.zp))
    ELSE Cat(y_list)

\* The tensor handed to conv2.
CSPYOut(x, y_list) ==
    IF \E i \in 1..Len(y_list) : ~y_list[i].ok THEN Err
    ELSE IF \E i \in 1..Len(y_list) : is_quantized(y_list[i])
    THEN LET scale == IF is_quantized(x) THEN x.q.scale ELSE ScaleOne
             zero_point == IF is_quantized(x) THEN x.q.zp ELSE 0
         IN  Eval(Cat(CSPCatInput(y_list)),
                  LAMBDA y_cat : quantize_per_tensor(y_cat, scale, zero_point))
    ELSE Cat(y_list)

CSPForward(m, x, env) ==
    IF ~x.ok THEN Err
    ELSE Eval(CSPYList(m, x, env), LAMBDA y_list :
         Eval(CSPYOut(x, y_list), LAMBDA y_out : ConvForward(m.conv2, y_out, env.c2)))

\* Every layer of a CSP producing the same representation r.
UniformEnv(r, n) ==
    [c1 |-> r, res |-> [i \in 1..n |-> [a |-> r, b |-> r]], c2 |-> r]

\* -------------------------------------------------------------------- SPP
SPP(in_ch, out_ch, k) ==
    [conv1 |-> Conv(in_ch, in_ch \div 2, 1, 1),
     conv2 |-> Conv(in_ch * 2, out_ch, 1, 1),
     res_m |-> [k |-> k, s |-> 1, p |-> k \div 2]]

\* torch.nn.MaxPool2d(k, 1, k // 2): channels and representation kept.
MaxPool2dForward(m, x) ==
    IF ~x.ok THEN Err
    ELSE [x EXCEPT !.h = OutSize(x.h, m), !.w = OutSize(x.w, m)]

SPPForward(m, x0, r) ==
    Eval(ConvForward(m.conv1, x0, r), LAMBDA x :
    Eval(MaxPool2dForward(m.res_m, x), LAMBDA y1 :
    Eval(MaxPool2dForward(m.res_m, y1), LAMBDA y2 :
    Eval(Cat(<<x, y1, y2, MaxPool2dForward(m.res_m, y2)>>), LAMBDA y :
         ConvForward(m.conv2, y, r)))))

\* ---------------------------------------------------------------- DarkNet
DarkNet(width, depth) ==
    [p1 |-> [conv |-> Conv(width[0], width[1], 3, 2)],
     p2 |-> [conv |-> Conv(width[1], width[2], 3, 2),
             csp  |-> CSP(width[2], width[2], depth[0], TRUE)],
     p3 |-> [conv |-> Conv(width[2], width[3], 3, 2),
             csp  |-> CSP(width[3], width[3], depth[1], TRUE)],
     p4 |-> [conv |-> Conv(width[3], width[4], 3, 2),
             csp  |-> CSP(width[4], width[4], depth[2], TRUE)],
     p5 |-> [conv |-> Conv(width[4], width[5], 3, 2),
             csp  |-> CSP(width[5], width[5], depth[0], TRUE),
             spp  |-> SPP(width[5], width[5], 5)]]

\* A Sequential of a stride-2 Conv followed by a CSP.
StageForward(st, x, r) ==
    Eval(ConvForward(st.conv, x, r), LAMBDA y :
         CSPForward(st.csp, y, UniformEnv(r, Len(st.csp.res_m))))

\* The five stage outputs; forward returns (p3, p4, p5) of them.
DarkNetStages(net, x, r) ==
    Eval(ConvForward(net.p1.conv, x, r), LAMBDA p1 :
    Eval(StageForward(net.p2, p1, r), LAMBDA p2 :
    Eval(StageForward(net.p3, p2, r), LAMBDA p3 :
    Eval(StageForward(net.p4, p3, r), LAMBDA p4 :
    Eval(StageForward(net.p5, p4, r), LAMBDA y :
    Eval(SPPForward(net.p5.spp, y, r), LAMBDA p5 :
         [p1 |-> p1, p2 |-> p2, p3 |-> p3, p4 |-> p4, p5 |-> p5]))))))

DarkNetForward(net, x, r) ==
    Eval(DarkNetStages(net, x, r), LAMBDA st : <<st.p3, st.p4, st.p5>>)

\* ---------------------------------------------------------------- DarkFPN
\* DarkFPN whose h6 is sized for two p5-wide operands.
DarkFPNWrongH6(width, depth) ==
    [up |-> 2,
     h1 |-> CSP(width[4] + width[5], width[4], depth[0], FALSE),
     h2 |-> CSP(width[3] + width[4], width[3], depth[0], FALSE),
     h3 |-> Conv(width[3], width[3], 3, 2),
     h4 |-> CSP(width[3] + width[4], width[4], depth[0], FALSE),
     h5 |-> Conv(width[4], width[4], 3, 2),
     h6 |-> CSP(width[5] + width[5], width[5], depth[0], FALSE)]

DarkFPN(width, depth) ==
    [up |-> 2,
     h1 |-> CSP(width[4] + width[5], width[4], depth[0], FALSE),
     h2 |-> CSP(width[3] + width[4], width[3], depth[0], FALSE),
     h3 |-> Conv(width[3], width[3], 3, 2),
     h4 |-> CSP(width[3] + width[4], width[4], depth[0], FALSE),
     h5 |-> Conv(width[4], width[4], 3, 2),
     h6 |-> CSP(width[4] + width[5], width[5], depth[0], FALSE)]

\* torch.nn.Upsample(scale_factor=2, mode='nearest')
Upsample(f, x) == IF ~x.ok THEN Err ELSE [x EXCEPT !.h = f * x.h, !.w = f * x.w]

FuseForward(csp, ts, r) ==
    Eval(Cat(ts), LAMBDA x : CSPForward(csp, x, UniformEnv(r, Len(csp.res_m))))

\* The forward pass, keeping the four concatenation operand pairs (in
\* program order) next to the returned (p3, p4, p5).
DarkFPNTrace(fpn, p, r) ==
    Eval(<<Upsample(fpn.up, p[3]), p[2]>>, LAMBDA c1 :
    Eval(FuseForward(fpn.h1, c1, r), LAMBDA q4 :
    Eval(<<Upsample(fpn.up, q4), p[1]>>, LAMBDA c2 :
    Eval(FuseForward(fpn.h2, c2, r), LAMBDA p3 :
    Eval(<<ConvForward(fpn.h3, p3, r), q4>>, LAMBDA c3 :
    Eval(FuseForward(fpn.h4, c3, r), LAMBDA p4 :
    Eval(<<ConvForward(fpn.h5, p4, r), p[3]>>, LAMBDA c4 :
    Eval(FuseForward(fpn.h6, c4, r), LAMBDA p5 :
         [cats |-> <<c1, c2, c3, c4>>, out |-> <<p3, p4, p5>>]))))))))

DarkFPNForward(fpn, p, r) == Eval(p, LAMBDA v : DarkFPNTrace(fpn, v, r).out)

\* ------------------------------------------------------------------- Head
ZeroStride == [num |-> 0, den |-> 1]

\* DetectHead sizing every scale's branches from that scale's own channels.
DetectHeadPerScale(nc, ch) ==
    [nc |-> nc,
     no |-> nc + 4,
     stride |-> [i \in 0..2 |-> ZeroStride],
     box |-> [i \in 0..2 |->
                LET box == Max2(64, ch[i] \div 4)
                IN  <<Conv(ch[i], box, 3, 1), Conv(box, box, 3, 1), Conv2d(box, 4, 1, 1, 0)>>],
     cls |-> [i \in 0..2 |->
                LET cls == Max3(80, ch[i], nc)
                IN  <<Conv(ch[i], cls, 3, 1), Conv(cls, cls, 3, 1), Conv2d(cls, nc, 1, 1, 0)>>]]

DetectHead(nc, ch) ==
    LET box == Max2(64, ch[0] \div 4)
        cls == Max3(80, ch[0], nc)
    IN  [nc |-> nc,
         no |-> nc + 4,
         stride |-> [i \in 0..2 |-> ZeroStride],
         box |-> [i \in 0..2 |-> <<Conv(ch[i], box, 3, 1), Conv(box, box, 3, 1),
                                   Conv2d(box, 4, 1, 1, 0)>>],
         cls |-> [i \in 0..2 |-> <<Conv(ch[i], cls, 3, 1), Conv(cls, cls, 3, 1),
                                   Conv2d(cls, nc, 1, 1, 0)>>]]

BranchForward(b, x, r) ==
    Eval(ConvForward(b[1], x, r), LAMBDA y1 :
    Eval(ConvForward(b[2], y1, r), LAMBDA y2 : Conv2dForward(b[3], y2, r)))

\* One scale of Head.forward: torch.cat((box_out, cls_out), dim=1).
ScaleForward(hd, i, x, r) ==
    Eval(<<BranchForward(hd.box[i], x, r), BranchForward(hd.cls[i], x, r)>>, Cat)

\* DetectHeadForward returning the list in (p5, p4, p3) order.
DetectHeadForwardReversed(hd, p, r) ==
    Eval(p, LAMBDA v : [i \in 1..3 |-> ScaleForward(hd, 3 - i, v[4 - i], r)])

DetectHeadForward(hd, p, r) ==
    Eval(p, LAMBDA v : [i \in 1..3 |-> ScaleForward(hd, i - 1, v[i], r)])

\* ------------------------------------------------------------------- YOLO
\* A call either raises or returns its list; nothing partial escapes.
Raised == [raised |-> TRUE, out |-> <<>>]

Returned(out) ==
    IF \E i \in 1..Len(out) : ~out[i].ok THEN Raised
    ELSE [raised |-> FALSE, out |-> out]

YOLOForward(net, fpn, hd, x, r) ==
    Eval(DarkNetForward(net, x, r), LAMBDA p :
    Eval(DarkFPNForward(fpn, p, r), LAMBDA f :
    Eval(DetectHeadForward(hd, f, r), Returned)))

img_dummy(width) == Tensor(width[0], 256, 256, RealQ)

\* 256 / x.shape[-2], kept as an exact fraction.
StrideOf(x) == [num |-> 256, den |-> x.h]

\* -------------------------------------------------------------------- QAT
\* torch.quantization.QuantStub / DeQuantStub: the identity until the
\* quantization collaborator converts the model, then quantize with the
\* stub's parameters sq / dequantize.
QuantStubForward(x, converted, sq) ==
    IF converted THEN quantize_per_tensor(x, sq.scale, sq.zp) ELSE x

DeQuantStubForward(f, converted) == IF converted THEN dequantize(f) ELSE f

\* Representation produced by the wrapped model's convolution layers.
LayerRepr(converted, mq) == IF converted THEN mq ELSE RealQ

QATWrap(hd, model_stride) ==
    [made |-> TRUE, nc |-> hd.nc, no |-> hd.no, stride |-> model_stride]

\* The wrapped model's call, line 203.
QATModelCall(net, fpn, hd, x, converted, sq, mq) ==
    Eval(QuantStubForward(x, converted, sq),
         LAMBDA xq : YOLOForward(net, fpn, hd, xq, LayerRepr(converted, mq)))

\* QATReturn dequantizing the first tensor only.
QATReturnFirstOnly(m, converted) ==
    IF m.raised THEN Raised
    ELSE Returned([i \in 1..Len(m.out) |->
                     IF i = 1 THEN DeQuantStubForward(m.out[i], converted) ELSE m.out[i]])

\* Line 204, applied to what the wrapped model returned.
QATReturn(m, converted) ==
    IF m.raised THEN Raised
    ELSE Returned([i \in 1..Len(m.out) |-> DeQuantStubForward(m.out[i], converted)])

QATForward(net, fpn, hd, x, converted, sq, mq) ==
    Eval(QATModelCall(net, fpn, hd, x, converted, sq, mq),
         LAMBDA m : QATReturn(m, converted))

\* -------------------------------------------------------------- factories
Seq0(s) == [i \in 0..(Len(s) - 1) |-> s[i + 1]]

Config(tag, depth, width) == [tag |-> tag, depth |-> Seq0(depth), width |-> Seq0(width)]

yolo_v8_n == Config("n", <<1, 2, 2>>, <<3, 16, 32, 64, 128, 256>>)

yolo_v8_t == Config("t", <<1, 2, 2>>, <<3, 24, 48, 96, 192, 384>>)

yolo_v8_s == Config("s", <<1, 2, 2>>, <<3, 32, 64, 128, 256, 512>>)

yolo_v8_m == Config("m", <<2, 4, 4>>, <<3, 48, 96, 192, 384, 576>>)

yolo_v8_l == Config("l", <<3, 6, 6>>, <<3, 64, 128, 256, 512, 512>>)

yolo_v8_x == Config("x", <<3, 6, 6>>, <<3, 80, 160, 320, 640, 640>>)

Factories == {yolo_v8_n, yolo_v8_t, yolo_v8_s, yolo_v8_m, yolo_v8_l, yolo_v8_x}

FactoryTags == {"n", "t", "s", "m", "l", "x"}

\* ------------------------------------------------------ explored inputs
\* Direct YOLO(width, depth, num_classes) calls with other configurations,
\* odd widths included.
CustomConfigs ==
    {Config("custom", <<d0, d1, 1>>, <<3, 8, w2, w3, w4, w5>>) :
        d0 \in {1, 2}, d1 \in {1, 2},
        w2 \in {6, 7}, w3 \in {6, 7}, w4 \in {6, 7}, w5 \in {6, 7}}

NumClasses == {1} \cup (80..(80 + MaxNcExtra))

\* Quantization parameters of the QuantStub and of the converted layers.
QParams == {Quant(ScaleOne, 0), Quant(2, 3)}

LayerQParams == {Quant(4, 5)}

InputShapes ==
    {<<3, 256, 256>>, <<3, 32, 32>>, <<3, 64, 32>>, <<3, 40, 32>>, <<3, 32, 40>>,
     <<3, 25, 25>>, <<1, 32, 32>>}

QATShapes == {<<3, 32, 32>>, <<3, 64, 32>>, <<3, 40, 32>>}

RealInputs == {Tensor(s[1], s[2], s[3], RealQ) : s \in InputShapes}

QuantInputs == {Tensor(3, 32, 32, q) : q \in QParams}

QATInputs == {Tensor(s[1], s[2], s[3], RealQ) : s \in QATShapes}

\* ------------------------------------------------------------------ state
VARIABLES
    tag,      \* which factory built the model ("custom": a direct YOLO(...) call)
    width,    \* constructor argument width
    depth,    \* constructor argument depth
    net,      \* YOLO.net
    fpn,      \* YOLO.fpn
    head,     \* YOLO.head (nc, no, stride, box, cls)
    stride,   \* YOLO.stride (<<>> until line 183 assigns it)
    pc,       \* "built": lines 178-181 done; "ready": constructed; "raised"
    qat,      \* the QAT wrapper's fields (made = FALSE: no wrapper yet)
    last,     \* the latest forward call: its input and what it returned
    unit      \* the latest call of a single block (SiLU, Residual, CSP) on its own

vars == <<tag, width, depth, net, fpn, head, stride, pc, qat, last, unit>>

NoUnit == [op |-> "none"]

NoQAT == [made |-> FALSE, nc |-> 0, no |-> 0, stride |-> <<>>]

NoCall ==
    [call |-> "none", x |-> Err, converted |-> FALSE, mx |-> Err, r |-> RealQ,
     model |-> Raised, res |-> Raised]

\* YOLO.__init__ lines 177-181: the modules exist, head.stride is zeros.
Init ==
    \E cfg \in Factories \cup CustomConfigs :
    \E num_classes \in NumClasses :
        /\ cfg.tag = "custom" => num_classes = 80
        /\ tag = cfg.tag
        /\ width = cfg.width
        /\ depth = cfg.depth
        /\ net = DarkNet(cfg.width, cfg.depth)
        /\ fpn = DarkFPN(cfg.width, cfg.depth)
        /\ head = DetectHead(num_classes, [i \in 0..2 |-> cfg.width[3 + i]])
        /\ stride = <<>>
        /\ pc = "built"
        /\ qat = NoQAT
        /\ last = NoCall
        /\ unit = NoUnit

\* YOLO.__init__ lines 182-183: the dummy forward and the stride assignment.
YOLOInitStride ==
    /\ pc = "built"
    /\ \E res \in {YOLOForward(net, fpn, head, img_dummy(width), RealQ)} :
          IF res.raised
          THEN /\ pc' = "raised"
               /\ UNCHANGED <<head, stride>>
          ELSE /\ pc' = "ready"
               /\ head' = [head EXCEPT !.stride = [i \in 0..2 |-> StrideOf(res.out[i + 1])]]
               /\ stride' = head'.stride
    /\ UNCHANGED <<tag, width, depth, net, fpn, qat, last, unit>>

\* YOLOCall measuring the stride again on every call.
YOLOCallRecomputing ==
    /\ pc = "ready"
    /\ \E converted \in BOOLEAN :
       \E x \in IF converted THEN QuantInputs ELSE RealInputs :
       \E mq \in LayerQParams :
       \E res \in {YOLOForward(net, fpn, head, x, LayerRepr(converted, mq))} :
              /\ last' = [call |-> "YOLO", x |-> x, converted |-> converted, mx |-> x,
                          r |-> LayerRepr(converted, mq), model |-> res, res |-> res]
              /\ head' = IF res.raised THEN head
                         ELSE [head EXCEPT !.stride =
                                  [i \in 0..2 |-> [num |-> x.h, den |-> res.out[i + 1].h]]]
              /\ stride' = head'.stride
    /\ UNCHANGED <<tag, width, depth, net, fpn, pc, qat, unit>>

\* YOLO.forward on a real input (float layers) or on a quantized input
\* (converted layers producing parameters mq).
YOLOCall ==
    /\ pc = "ready"
    /\ \E converted \in BOOLEAN :
       \E x \in IF converted THEN QuantInputs ELSE RealInputs :
       \E mq \in LayerQParams :
       \E res \in {YOLOForward(net, fpn, head, x, LayerRepr(converted, mq))} :
              last' = [call |-> "YOLO", x |-> x, converted |-> converted, mx |-> x,
                       r |-> LayerRepr(converted, mq), model |-> res, res |-> res]
    /\ UNCHANGED <<tag, width, depth, net, fpn, head, stride, pc, qat, unit>>

\* QAT.__init__
QATInit ==
    /\ pc = "ready"
    /\ ~qat.made
    /\ qat' = QATWrap(head, stride)
    /\ UNCHANGED <<tag, width, depth, net, fpn, head, stride, pc, last, unit>>

\* QAT.forward on a real input, before or after conversion.
QATCall ==
    /\ pc = "ready"
    /\ qat.made
    /\ \E converted \in BOOLEAN :
       \E sq \in IF converted THEN QParams ELSE {RealQ} :
       \E mq \in LayerQParams :
       \E x \in QATInputs :
       \E m \in {QATModelCall(net, fpn, head, x, converted, sq, mq)} :
          last' = [call |-> "QAT", x |-> x, converted |-> converted,
                   mx |-> QuantStubForward(x, converted, sq),
                   r |-> LayerRepr(converted, mq),
                   model |-> m,
                   res |-> QATForward(net, fpn, head, x, converted, sq, mq)]
    /\ UNCHANGED <<tag, width, depth, net, fpn, head, stride, pc, qat, unit>>

Next == YOLOInitStride \/ YOLOCall \/ QATInit \/ QATCall

Spec == Init /\ [][Next]_vars

\* --------------------------------------------- single blocks on their own
\* The blocks called directly, with the representation produced by every
\* convolution layer left to the quantization collaborator.
UnitQ == {RealQ, Quant(2, 3), Quant(ScaleOne, 0)}

LayerQ == {RealQ, Quant(4, 5)}

CSPWidths == {6, 7, 16, 64, 256}

CSPDepths == {0, 1, 2, 3, 6}

ResidualEnvs == [a : LayerQ, b : LayerQ]

CSPEnvs(out_ch, n) ==
    IF n <= MaxDepthQ /\ out_ch = 16
    THEN [c1 : LayerQ, res : [1..n -> ResidualEnvs], c2 : LayerQ]
    ELSE {UniformEnv(r, n) : r \in LayerQ}

SiLUInputs ==
    {[op |-> "SiLU", done |-> FALSE, x |-> Tensor(c, 8, 8, q)] :
        c \in {16, 64}, q \in UnitQ \cup LayerQ}

ResidualInputs ==
    {[op |-> "Residual", done |-> FALSE, m |-> Residual(ch, add),
      x |-> Tensor(ch, 8, 8, q), env |-> e] :
        ch \in {8, 32}, add \in BOOLEAN, q \in UnitQ, e \in ResidualEnvs}

CSPInputs ==
    UNION {{[op |-> "CSP", done |-> FALSE, m |-> CSP(out_ch, out_ch, n, add),
             n |-> n, out_ch |-> out_ch, x |-> Tensor(out_ch, 8, 8, q), env |-> env] :
               add \in BOOLEAN, q \in UnitQ, env \in CSPEnvs(out_ch, n)} :
           out_ch \in CSPWidths, n \in CSPDepths}

\* The block, its input and the layers' representations are drawn here;
\* the fields of the model of the n variant are carried along unused.
InitQ ==
    /\ tag = yolo_v8_n.tag
    /\ width = yolo_v8_n.width
    /\ depth = yolo_v8_n.depth
    /\ net = DarkNet(yolo_v8_n.width, yolo_v8_n.depth)
    /\ fpn = DarkFPN(yolo_v8_n.width, yolo_v8_n.depth)
    /\ head = DetectHead(80, [i \in 0..2 |-> yolo_v8_n.width[3 + i]])
    /\ stride = <<>>
    /\ pc = "built"
    /\ qat = NoQAT
    /\ last = NoCall
    /\ unit \in SiLUInputs \cup ResidualInputs \cup CSPInputs

\* SiLU.forward
SiLUCall ==
    /\ unit.op = "SiLU"
    /\ ~unit.done
    /\ unit' = [op |-> "SiLU", done |-> TRUE, x |-> unit.x, out |-> SiLUForward(unit.x)]
    /\ UNCHANGED <<tag, width, depth, net, fpn, head, stride, pc, qat, last>>

\* Residual.forward
ResidualCall ==
    /\ unit.op = "Residual"
    /\ ~unit.done
    /\ unit' = [op |-> "Residual", done |-> TRUE, m |-> unit.m, x |-> unit.x,
                env |-> unit.env,
                y |-> ResidualY(unit.m, unit.x, unit.env),
                out |-> ResidualForward(unit.m, unit.x, unit.env)]
    /\ UNCHANGED <<tag, width, depth, net, fpn, head, stride, pc, qat, last>>

\* CSP.forward
CSPCall ==
    /\ unit.op = "CSP"
    /\ ~unit.done
    /\ \E y_list \in {CSPYList(unit.m, unit.x, unit.env)} :
           unit' = [op |-> "CSP", done |-> TRUE, m |-> unit.m, n |-> unit.n,
                    out_ch |-> unit.out_ch, x |-> unit.x, env |-> unit.env,
                    y_list |-> y_list,
                    cat_in |-> CSPCatInput(y_list),
                    y_out |-> CSPYOut(unit.x, y_list),
                    out |-> CSPForward(unit.m, unit.x, unit.env)]
    /\ UNCHANGED <<tag, width, depth, net, fpn, head, stride, pc, qat, last>>

NextQ == SiLUCall \/ ResidualCall \/ CSPCall

SpecQ == InitQ /\ [][NextQ]_vars

\* ================================================================= claims
Ch(i) == width[3 + i]

\* A head branch whose three layers all run at internal width w.
BranchWidthIs(b, w) ==
    /\ b[1].out_ch = w
    /\ b[2].in_ch = w
    /\ b[2].out_ch = w
    /\ b[3].in_ch = w

\* Channel bookkeeping of one CSP, from its layers' declared channel counts:
\* the two chunks of conv1's output, the Residual chain, the concatenation.
CSPWired(m) ==
    LET c == m.conv1.out_ch
        first == (c + 1) \div 2
        second == c - first
        n == Len(m.res_m)
    IN  /\ second > 0
        /\ \A i \in 1..n :
              /\ m.res_m[i].conv1.in_ch = second
              /\ m.res_m[i].conv1.out_ch = m.res_m[i].conv2.in_ch
              /\ m.res_m[i].conv2.out_ch = second
        /\ m.conv2.in_ch = first + second + n * second

SPPWired(m) == m.conv2.in_ch = 4 * m.conv1.out_ch

BranchWired(b, c) ==
    /\ b[1].in_ch = c
    /\ b[2].in_ch = b[1].out_ch
    /\ b[3].in_ch = b[2].out_ch

\* Every producer-to-consumer edge of the graph carries the channel count
\* its consumer was constructed for.
Wired ==
    /\ net.p2.conv.in_ch = net.p1.conv.out_ch
    /\ net.p2.csp.conv1.in_ch = net.p2.conv.out_ch
    /\ net.p3.conv.in_ch = net.p2.csp.conv2.out_ch
    /\ net.p3.csp.conv1.in_ch = net.p3.conv.out_ch
    /\ net.p4.conv.in_ch = net.p3.csp.conv2.out_ch
    /\ net.p4.csp.conv1.in_ch = net.p4.conv.out_ch
    /\ net.p5.conv.in_ch = net.p4.csp.conv2.out_ch
    /\ net.p5.csp.conv1.in_ch = net.p5.conv.out_ch
    /\ net.p5.spp.conv1.in_ch = net.p5.csp.conv2.out_ch
    /\ \A st \in {net.p2, net.p3, net.p4, net.p5} : CSPWired(st.csp)
    /\ SPPWired(net.p5.spp)
    /\ fpn.h1.conv1.in_ch = net.p5.spp.conv2.out_ch + net.p4.csp.conv2.out_ch
    /\ fpn.h2.conv1.in_ch = fpn.h1.conv2.out_ch + net.p3.csp.conv2.out_ch
    /\ fpn.h3.in_ch = fpn.h2.conv2.out_ch
    /\ fpn.h4.conv1.in_ch = fpn.h3.out_ch + fpn.h1.conv2.out_ch
    /\ fpn.h5.in_ch = fpn.h4.conv2.out_ch
    /\ fpn.h6.conv1.in_ch = fpn.h5.out_ch + net.p5.spp.conv2.out_ch
    /\ \A m \in {fpn.h1, fpn.h2, fpn.h4, fpn.h6} : CSPWired(m)
    /\ BranchWired(head.box[0], fpn.h2.conv2.out_ch)
    /\ BranchWired(head.cls[0], fpn.h2.conv2.out_ch)
    /\ BranchWired(head.box[1], fpn.h4.conv2.out_ch)
    /\ BranchWired(head.cls[1], fpn.h4.conv2.out_ch)
    /\ BranchWired(head.box[2], fpn.h6.conv2.out_ch)
    /\ BranchWired(head.cls[2], fpn.h6.conv2.out_ch)

IsStride(s, v) == s.den > 0 /\ s.num = v * s.den

\* C1 (as stated): in every factory variant, the box branch of scale i runs at
\* width max(64, C_i/4) and the class branch at max(80, C_i, num_classes),
\* C_i being that scale's own input channel count.
C1_PerScaleWidths ==
    tag \in FactoryTags =>
        \A i \in 0..2 :
            /\ BranchWidthIs(head.box[i], Max2(64, Ch(i) \div 4))
            /\ BranchWidthIs(head.cls[i], Max3(80, Ch(i), head.nc))

\* C1 (amended): in every factory variant, all three box branches run at width
\* max(64, C_0/4) and all three class branches at max(80, C_0, num_classes),
\* C_0 = width[3] being the first (p3) scale's input channel count; only the
\* first layer's input channel count is the scale's own.
C1_FirstScaleWidths ==
    tag \in FactoryTags =>
        \A i \in 0..2 :
            /\ BranchWidthIs(head.box[i], Max2(64, Ch(0) \div 4))
            /\ BranchWidthIs(head.cls[i], Max3(80, Ch(0), head.nc))
            /\ head.box[i][1].in_ch = Ch(i)
            /\ head.cls[i][1].in_ch = Ch(i)

C1_Witness ==
    /\ tag = "n"
    /\ head.nc = 1
    /\ pc = "ready"
    /\ Ch(0) # Ch(1)
    /\ Ch(1) # Ch(2)
    /\ Max3(80, Ch(1), head.nc) # Max3(80, Ch(0), head.nc)

\* C2: for every factory variant and class count, construction ends with head
\* stride [8, 16, 32]: the dummy 256x256 input is halved by the five stride-2
\* ConvBlocks (128, 64, 32, 16, 8), the pyramid returns heights 32, 16, 8, and
\* stride[i] = 256 / height[i].
C2_FactoryStrides ==
    (tag \in FactoryTags /\ pc # "built") =>
        /\ pc = "ready"
        /\ IsStride(head.stride[0], 8)
        /\ IsStride(head.stride[1], 16)
        /\ IsStride(head.stride[2], 32)
        /\ \A st \in {DarkNetStages(net, img_dummy(width), RealQ)} :
           \A py \in {DarkFPNForward(fpn, <<st.p3, st.p4, st.p5>>, RealQ)} :
               /\ <<st.p1.h, st.p2.h, st.p3.h, st.p4.h, st.p5.h>> = <<128, 64, 32, 16, 8>>
               /\ <<py[1].h, py[2].h, py[3].h>> = <<32, 16, 8>>
               /\ \A i \in 0..2 : head.stride[i] = [num |-> 256, den |-> py[i + 1].h]

C2_Witness ==
    /\ tag = "x"
    /\ pc = "ready"
    /\ head.stride[2].den = 8

\* C3: the stride is computed once, by the constructor: head.stride is all
\* zeros until the dummy forward has completed, and from then on no forward
\* call on the model or on the QAT wrapper changes head.stride, YOLO.stride or
\* QAT.stride, which stay equal to each other.
C3_StrideState ==
    /\ pc # "ready" => \A i \in 0..2 : head.stride[i] = ZeroStride
    /\ pc = "ready" => stride = head.stride
    /\ qat.made => qat.stride = stride

C3_StrideStep ==
    pc = "ready" =>
        /\ head'.stride = head.stride
        /\ stride' = stride
        /\ qat.made => qat'.stride = qat.stride

\* C3: in every state the stride fields are as described above, and every
\* step taken once the model is constructed leaves all three unchanged.
C3_StrideOnce == []C3_StrideState /\ [][C3_StrideStep]_vars

C3_Witness ==
    /\ qat.made
    /\ last.call = "QAT"
    /\ ~last.res.raised
    /\ last.x.h = 64
    /\ IsStride(qat.stride[0], 8)

\* C4: in each factory configuration every producer-to-consumer edge carries
\* the channel count its consumer was constructed for, the backbone stages and
\* the pyramid outputs have their declared widths, and construction does not
\* raise.
C4_FactoryWiring ==
    tag \in FactoryTags =>
        /\ pc # "raised"
        /\ Wired
        /\ \A st \in {DarkNetStages(net, img_dummy(width), RealQ)} :
           \A py \in {DarkFPNForward(fpn, <<st.p3, st.p4, st.p5>>, RealQ)} :
               /\ \A t \in {st.p1, st.p2, st.p3, st.p4, st.p5, py[1], py[2], py[3]} : t.ok
               /\ <<st.p1.c, st.p2.c, st.p3.c, st.p4.c, st.p5.c>>
                     = <<width[1], width[2], width[3], width[4], width[5]>>
               /\ <<py[1].c, py[2].c, py[3].c>> = <<width[3], width[4], width[5]>>

C4_Witness ==
    /\ tag = "m"
    /\ pc = "ready"
    /\ Len(net.p3.csp.res_m) = 4

\* C6: a YOLO.forward call that returns gives exactly three tensors, each of
\* 4 + num_classes channels whatever the scale's input width; on an input of
\* the model's channel count whose height and width are multiples of 32 it
\* returns, with spatial sizes H/8, H/16, H/32 in (p3, p4, p5) order (84
\* channels and 32x32, 16x16, 8x8 for the n variant, 80 classes, 256x256).
C6_ForwardOutputs ==
    last.call = "YOLO" =>
        /\ ~last.res.raised =>
              /\ Len(last.res.out) = 3
              /\ \A i \in 1..3 : last.res.out[i].c = 4 + head.nc
        /\ (last.x.c = width[0] /\ last.x.h % 32 = 0 /\ last.x.w % 32 = 0) =>
              /\ ~last.res.raised
              /\ <<last.res.out[1].h, last.res.out[2].h, last.res.out[3].h>>
                    = <<last.x.h \div 8, last.x.h \div 16, last.x.h \div 32>>
              /\ <<last.res.out[1].w, last.res.out[2].w, last.res.out[3].w>>
                    = <<last.x.w \div 8, last.x.w \div 16, last.x.w \div 32>>

C6_Witness ==
    /\ tag = "n"
    /\ head.nc = 80
    /\ last.call = "YOLO"
    /\ last.x = Tensor(3, 256, 256, RealQ)
    /\ ~last.res.raised
    /\ \A i \in 1..3 : last.res.out[i].c = 84
    /\ <<last.res.out[1].h, last.res.out[2].h, last.res.out[3].h>> = <<32, 16, 8>>

\* The operand pairs of the four pyramid concatenations in the latest call.
LastCats ==
    Eval(DarkNetForward(net, last.mx, last.r), LAMBDA p : DarkFPNTrace(fpn, p, last.r).cats)

SpatialMismatch(pair) ==
    /\ pair[1].ok
    /\ pair[2].ok
    /\ (pair[1].h # pair[2].h \/ pair[1].w # pair[2].w)

\* C7: no mismatch is absorbed: a configuration with a channel mismatch on
\* some edge never finishes construction (it raises), a forward call in which
\* the operands of a pyramid concatenation differ in height or width raises,
\* and a call either raises with no result or returns all three outputs.
C7_FailFast ==
    /\ pc = "ready" => Wired
    /\ (~Wired /\ pc # "built") => pc = "raised"
    /\ last.call # "none" =>
          /\ \A cats \in {LastCats} :
                (\E k \in 1..4 : SpatialMismatch(cats[k])) => last.res.raised
          /\ IF last.res.raised
             THEN last.res.out = <<>>
             ELSE /\ Len(last.res.out) = 3
                  /\ \A i \in 1..3 : last.res.out[i].ok

C7_Witness ==
    /\ pc = "ready"
    /\ last.call = "YOLO"
    /\ last.x.h = 40
    /\ SpatialMismatch(LastCats[1])
    /\ last.res.raised

\* C8: QAT.forward quantizes the input before the wrapped model runs and
\* dequantizes every tensor of the model's output list: the returned list has
\* the model's length (3) and order and holds only real-valued tensors; the
\* wrapper's nc, no and stride equal head.nc, head.no = nc + 4 and the
\* model's stride.
C8_QATBoundary ==
    /\ qat.made =>
          /\ qat.nc = head.nc
          /\ qat.no = head.no
          /\ qat.no = head.nc + 4
          /\ qat.stride = stride
    /\ last.call = "QAT" =>
          /\ last.converted => is_quantized(last.mx)
          /\ last.res.raised = last.model.raised
          /\ ~last.res.raised =>
                /\ Len(last.res.out) = 3
                /\ Len(last.model.out) = 3
                /\ \A i \in 1..3 :
                      /\ ~is_quantized(last.res.out[i])
                      /\ <<last.res.out[i].c, last.res.out[i].h, last.res.out[i].w>>
                            = <<last.model.out[i].c, last.model.out[i].h, last.model.out[i].w>>

C8_Witness ==
    /\ last.call = "QAT"
    /\ last.converted
    /\ ~last.res.raised
    /\ \A i \in 1..3 : is_quantized(last.model.out[i])
    /\ \A i \in 1..3 : ~is_quantized(last.res.out[i])

AllOk(ts) == \A i \in 1..Len(ts) : ts[i].ok

AnyQuantized(ts) == \E i \in 1..Len(ts) : is_quantized(ts[i])

\* C5: in CSP.forward with an even out_ch, the concatenated list has 2 + n
\* tensors of out_ch/2 channels each, its total width (2 + n) * out_ch / 2 is
\* the input channel count conv2 was constructed with, and every Residual of
\* the chain receives the out_ch/2 channels it was constructed for.
C5_CSPConcatWidth ==
    (unit.op = "CSP" /\ unit.done /\ unit.out_ch % 2 = 0 /\ AllOk(unit.y_list)) =>
        /\ Len(unit.y_list) = 2 + unit.n
        /\ Len(unit.cat_in) = 2 + unit.n
        /\ \A i \in 1..(2 + unit.n) : unit.cat_in[i].c = unit.out_ch \div 2
        /\ SumC(unit.cat_in) = (2 + unit.n) * (unit.out_ch \div 2)
        /\ unit.y_out.ok
        /\ unit.y_out.c = unit.m.conv2.in_ch
        /\ unit.out.ok
        /\ Len(unit.m.res_m) = unit.n
        /\ \A i \in 1..unit.n : unit.y_list[i + 1].c = unit.m.res_m[i].conv1.in_ch

C5_Witness ==
    /\ unit.op = "CSP"
    /\ unit.done
    /\ unit.n = 6
    /\ unit.out_ch = 256
    /\ AllOk(unit.y_list)
    /\ unit.y_out.c = 1024

\* C9: in CSP.forward, if some member of the list is quantized then every
\* member is real when concatenated and conv2 receives a tensor quantized
\* with the input x's scale and zero point, or with (1.0, 0) when x is real;
\* if no member is quantized the list is concatenated as it is and passed on
\* real.  Members of mixed representation are never concatenated.
C9_CSPMixedPrecision ==
    (unit.op = "CSP" /\ unit.done /\ AllOk(unit.y_list)) =>
        /\ ~AnyQuantized(unit.cat_in)
        /\ unit.y_out.ok
        /\ IF AnyQuantized(unit.y_list)
           THEN /\ is_quantized(unit.y_out)
                /\ unit.y_out.q = IF is_quantized(unit.x)
                                  THEN Quant(unit.x.q.scale, unit.x.q.zp)
                                  ELSE Quant(ScaleOne, 0)
           ELSE /\ unit.cat_in = unit.y_list
                /\ ~is_quantized(unit.y_out)

C9_Witness ==
    /\ unit.op = "CSP"
    /\ unit.done
    /\ AllOk(unit.y_list)
    /\ ~is_quantized(unit.x)
    /\ AnyQuantized(unit.y_list)
    /\ \E i \in 1..Len(unit.y_list) : ~is_quantized(unit.y_list[i])
    /\ unit.y_out.q = Quant(ScaleOne, 0)

\* C10: SiLU.forward of a quantized x is quantized with x's scale and zero
\* point; Residual.forward with add=True and both x and y quantized is
\* quantized with x's scale and zero point (not y's), with add=False it is y,
\* and with a non-quantized operand it is the plain sum, never quantized.
C10_QParamsCarried ==
    /\ (unit.op = "SiLU" /\ unit.done /\ is_quantized(unit.x)) =>
          /\ unit.out.ok
          /\ unit.out.q = unit.x.q
    /\ (unit.op = "Residual" /\ unit.done /\ unit.y.ok) =>
          IF ~unit.m.add_m THEN unit.out = unit.y
          ELSE IF is_quantized(unit.x) /\ is_quantized(unit.y)
          THEN /\ unit.out.ok
               /\ unit.out.q = unit.x.q
          ELSE ~is_quantized(unit.out)

C10_Witness ==
    /\ unit.op = "Residual"
    /\ unit.done
    /\ unit.m.add_m
    /\ is_quantized(unit.x)
    /\ is_quantized(unit.y)
    /\ unit.y.q # unit.x.q
    /\ unit.out.q = unit.x.q
====
